---- MODULE Spec2Model ----
(***************************************************************************)
(* Model of chatgpt_films.py: read_file (loader), top_n (ranker) and       *)
(* write_file (writer).                                                    *)
(*                                                                         *)
(* Text is modelled as a sequence of one-character strings, so that        *)
(* str.strip, str.split, int(), float() and the '.1f' format are computed  *)
(* as the interpreter computes them.  Ratings and scores are exact         *)
(* rationals in tenths (a rating text carries at most one fractional       *)
(* digit; the literals nan / inf / exponents are outside the alphabet).    *)
(***************************************************************************)
EXTENDS Integers, Sequences, FiniteSets, TLC

VARIABLES
    pc,                    \* "start", "returned" or "raised"
    err,                   \* name of the exception that left the call, or "none"
    readable,              \* read_file: open(pathname) succeeds
    fileText,              \* read_file: the lines of the input file
    year,                  \* read_file: parameter year
    movies,                \* read_file: return value
    data,                  \* top_n: parameter data
    genre,                 \* top_n: parameter genre
    n,                     \* top_n: parameter n
    actor_highest_rating,  \* top_n: local dictionary after pass 1
    filtered_movies,       \* top_n: local list after pass 2
    ranked,                \* top_n: return value
    top,                   \* write_file: parameter top
    writable,              \* write_file: open(file_name, 'w') succeeds
    oldFile,               \* write_file: characters of the destination before the call
    outFile                \* write_file: characters of the destination file

vars == <<pc, err, readable, fileText, year, movies, data, genre, n,
          actor_highest_rating, filtered_movies, ranked, top, writable, oldFile, outFile>>

loadVars == <<readable, fileText, year, movies>>
rankVars == <<data, genre, n, actor_highest_rating, filtered_movies, ranked>>
writeVars == <<top, writable, oldFile, outFile>>

(***************************************************************************)
(* Bounds of the model.                                                    *)
(***************************************************************************)
MaxLines == 3
MaxRows == 3
MaxResults == 2

(***************************************************************************)
(* Text helpers.                                                           *)
(***************************************************************************)
Digits == {"0", "1", "2", "3", "4", "5", "6", "7", "8", "9"}

Whitespace == {" ", "\t", "\n", "\r", "\f"}

DigitVal(c) ==
    CASE c = "0" -> 0 [] c = "1" -> 1 [] c = "2" -> 2 [] c = "3" -> 3
      [] c = "4" -> 4 [] c = "5" -> 5 [] c = "6" -> 6 [] c = "7" -> 7
      [] c = "8" -> 8 [] c = "9" -> 9

DigitChar(d) ==
    CASE d = 0 -> "0" [] d = 1 -> "1" [] d = 2 -> "2" [] d = 3 -> "3"
      [] d = 4 -> "4" [] d = 5 -> "5" [] d = 6 -> "6" [] d = 7 -> "7"
      [] d = 8 -> "8" [] d = 9 -> "9"

\* Code points of the characters that occur in titles.
CharCode(c) ==
    CASE c = " " -> 32 [] c = "A" -> 65 [] c = "B" -> 66 [] c = "a" -> 97
      [] OTHER -> 0

Abs(x) == IF x < 0 THEN -x ELSE x

RECURSIVE Gcd(_, _)
Gcd(a, b) == IF b = 0 THEN a ELSE Gcd(b, a % b)

RECURSIVE LStrip(_)
LStrip(s) ==
    IF s # <<>> /\ Head(s) \in Whitespace THEN LStrip(Tail(s)) ELSE s

RECURSIVE RStrip(_)
RStrip(s) ==
    IF s # <<>> /\ s[Len(s)] \in Whitespace
    THEN RStrip(SubSeq(s, 1, Len(s) - 1)) ELSE s

\* str.strip()
Strip(s) == RStrip(LStrip(s))

IsPrefixAt(s, sep, i) ==
    /\ i + Len(sep) - 1 <= Len(s)
    /\ \A k \in 1..Len(sep) : s[i + k - 1] = sep[k]

\* str.split(sep) for a non-empty sep: left to right, non-overlapping.
RECURSIVE SplitFrom(_, _, _, _)
SplitFrom(s, sep, i, cur) ==
    IF i > Len(s) THEN <<cur>>
    ELSE IF IsPrefixAt(s, sep, i)
         THEN <<cur>> \o SplitFrom(s, sep, i + Len(sep), <<>>)
         ELSE SplitFrom(s, sep, i + 1, Append(cur, s[i]))

Split(s, sep) == SplitFrom(s, sep, 1, <<>>)

RECURSIVE Join(_, _)
Join(parts, sep) ==
    IF parts = <<>> THEN <<>>
    ELSE IF Len(parts) = 1 THEN parts[1]
    ELSE parts[1] \o sep \o Join(Tail(parts), sep)

RECURSIVE DigitsValue(_)
DigitsValue(s) ==
    IF s = <<>> THEN 0
    ELSE DigitsValue(SubSeq(s, 1, Len(s) - 1)) * 10 + DigitVal(s[Len(s)])

AllDigits(s) == \A i \in 1..Len(s) : s[i] \in Digits

\* int(text): surrounding whitespace, one optional sign, one or more digits.
ParseInt(s) ==
    LET t == Strip(s)
        signed == t # <<>> /\ t[1] \in {"+", "-"}
        body == IF signed THEN Tail(t) ELSE t
        ok == body # <<>> /\ AllDigits(body)
        v == IF ok THEN DigitsValue(body) ELSE 0
    IN  [ok |-> ok, val |-> IF signed /\ t[1] = "-" THEN -v ELSE v]

\* float(text), in tenths: surrounding whitespace, one optional sign,
\* digits with an optional point, at least one digit in all.
ParseFloat(s) ==
    LET t == Strip(s)
        signed == t # <<>> /\ t[1] \in {"+", "-"}
        body == IF signed THEN Tail(t) ELSE t
        parts == Split(body, <<".">>)
        ip == parts[1]
        fp == IF Len(parts) = 2 THEN parts[2] ELSE <<>>
        ok == /\ Len(parts) <= 2
              /\ AllDigits(ip) /\ AllDigits(fp)
              /\ Len(ip) + Len(fp) >= 1
              /\ Len(fp) <= 1
        v == IF ok THEN DigitsValue(ip) * 10 + DigitsValue(fp) ELSE 0
    IN  [ok |-> ok, val |-> IF signed /\ t[1] = "-" THEN -v ELSE v]

(***************************************************************************)
(* read_file                                                               *)
(***************************************************************************)
YearIdx == 6

\* One iteration of "for line in file": the row, and whether it is appended.
LineRow(line) == Split(Strip(line), <<";">>)

\* Variant: the year must exceed the minimum.
KeepsRowStrict(row, minYear) ==
    /\ Len(row) > YearIdx
    /\ ParseInt(row[YearIdx + 1]).ok
    /\ ParseInt(row[YearIdx + 1]).val > minYear

KeepsRow(row, minYear) ==
    /\ Len(row) > YearIdx
    /\ ParseInt(row[YearIdx + 1]).ok
    /\ ParseInt(row[YearIdx + 1]).val >= minYear

RECURSIVE ReadRows(_, _)
ReadRows(lines, minYear) ==
    IF lines = <<>> THEN <<>>
    ELSE LET row == LineRow(Head(lines))
         IN  (IF KeepsRow(row, minYear) THEN <<row>> ELSE <<>>)
                 \o ReadRows(Tail(lines), minYear)

TextLine(fields) == Join(fields, <<";">>) \o <<"\n">>

LoadLines ==
    { TextLine(<<<<"1">>, <<"A">>, <<"g">>, <<"d">>, <<"r">>, <<"X">>, <<"1", "2">>, <<"9">>, <<"8">>>>),
      TextLine(<<<<"2">>, <<"B">>, <<"g">>, <<"d">>, <<"r">>, <<"X">>, <<"5">>>>),
      TextLine(<<<<"3">>, <<"A">>, <<"g">>, <<"d">>, <<"r">>, <<"X">>, <<"x">>, <<"9">>, <<"8">>>>),
      TextLine(<<<<"4">>, <<"A">>, <<"g">>, <<"d">>, <<"r">>, <<"7">>>>),
      TextLine(<<<<>>>>),
      TextLine(<<<<" ", "5">>, <<"a">>, <<"g">>, <<"d">>, <<"r">>, <<"X">>, <<" ", "7", " ">>, <<"9">>, <<" ">>>>),
      TextLine(<<<<"6">>, <<"B">>, <<"g">>, <<"d">>, <<"r">>, <<"X">>, <<"-", "3">>, <<"9">>>>),
      TextLine(<<<<"7">>, <<"B">>, <<"g">>, <<"d">>, <<"r">>, <<"X">>, <<>>, <<"9">>, <<"8">>>>) }

MinYears == {0, 5, -3}

RECURSIVE SeqsUpTo(_, _)
SeqsUpTo(S, k) ==
    IF k = 0 THEN {<<>>}
    ELSE LET shorter == SeqsUpTo(S, k - 1)
         IN  shorter \cup {Append(q, x) : q \in {r \in shorter : Len(r) = k - 1}, x \in S}

InitLoad ==
    /\ pc = "start" /\ err = "none"
    /\ readable \in BOOLEAN
    /\ fileText \in SeqsUpTo(LoadLines, MaxLines)
    /\ year \in MinYears
    /\ movies = <<>>
    /\ data = <<>> /\ genre = <<>> /\ n = 0
    /\ actor_highest_rating = <<>> /\ filtered_movies = <<>> /\ ranked = <<>>
    /\ top = <<>> /\ writable = TRUE /\ oldFile = <<>> /\ outFile = <<>>

ReadFile ==
    /\ pc = "start"
    /\ IF ~readable
       THEN pc' = "raised" /\ err' = "OSError" /\ movies' = movies
       ELSE IF fileText = <<>>
            THEN pc' = "raised" /\ err' = "StopIteration" /\ movies' = movies
            ELSE /\ pc' = "returned" /\ err' = err
                 /\ movies' = ReadRows(Tail(fileText), year)
    /\ UNCHANGED <<readable, fileText, year>>
    /\ UNCHANGED rankVars
    /\ UNCHANGED writeVars

NextLoad == ReadFile

SpecLoad == InitLoad /\ [][NextLoad]_vars

(***************************************************************************)
(* top_n                                                                   *)
(***************************************************************************)
TitleIdx == 1
GenreIdx == 2
CastIdx == 5
RatingIdx == 8

\* Exact rationals, kept reduced with a positive denominator.
Rat(a, b) ==
    LET g == Gcd(Abs(a), b)
    IN  [num |-> a \div g, den |-> b \div g]

RatLess(x, y) == x.num * y.den < y.num * x.den

\* Plain code point order of two texts (str.__lt__).
RECURSIVE StrLess(_, _)
StrLess(a, b) ==
    IF b = <<>> THEN FALSE
    ELSE IF a = <<>> THEN TRUE
    ELSE IF CharCode(Head(a)) # CharCode(Head(b))
         THEN CharCode(Head(a)) < CharCode(Head(b))
         ELSE StrLess(Tail(a), Tail(b))

\* Variant: the filter terms are not stripped.
GenreListNoStrip(g) == IF g = <<>> THEN <<>> ELSE Split(g, <<",">>)

\* genre_list = [g.strip() for g in genre.split(',')] if genre else []
GenreList(g) ==
    IF g = <<>> THEN <<>>
    ELSE LET terms == Split(g, <<",">>)
         IN  [i \in 1..Len(terms) |-> Strip(terms[i])]

\* float(movie[8]) succeeds: the field exists and parses.
RatingOk(movie) ==
    /\ Len(movie) > RatingIdx
    /\ ParseFloat(movie[RatingIdx + 1]).ok

RatingOf(movie) == ParseFloat(movie[RatingIdx + 1]).val

\* actors = movie[5].split(', ')
ActorsOf(movie) == Split(movie[CastIdx + 1], <<",", " ">>)

\* Variant: the first rating seen for an actor is kept.
RateActorFirst(table, actor, rating) ==
    [a \in (DOMAIN table) \cup {actor} |->
        IF a \in DOMAIN table THEN table[a] ELSE rating]

\* The if/else of the inner loop of pass 1, for one actor.
RateActor(table, actor, rating) ==
    [a \in (DOMAIN table) \cup {actor} |->
        IF a = actor
        THEN IF actor \in DOMAIN table /\ table[actor] >= rating
             THEN table[actor] ELSE rating
        ELSE table[a]]

\* Variant: only the first name of the cast is rated.
RateActorsFirstOnly(table, actors, rating) ==
    RateActor(table, Head(actors), rating)

RECURSIVE RateActors(_, _, _)
RateActors(table, actors, rating) ==
    IF actors = <<>> THEN table
    ELSE RateActors(RateActor(table, Head(actors), rating), Tail(actors), rating)

\* Pass 1: the dictionary of the highest rating per actor.
RECURSIVE Pass1(_, _)
Pass1(rows, table) ==
    IF rows = <<>> THEN table
    ELSE LET movie == Head(rows)
         IN  Pass1(Tail(rows),
                   IF RatingOk(movie)
                   THEN RateActors(table, ActorsOf(movie), RatingOf(movie))
                   ELSE table)

\* not genre_list or any(g in movie_genres for g in genre_list)
GenreMatches(movie, genre_list) ==
    LET movie_genres == Split(movie[GenreIdx + 1], <<",">>)
    IN  \/ genre_list = <<>>
        \/ \E i \in 1..Len(genre_list), j \in 1..Len(movie_genres) :
               genre_list[i] = movie_genres[j]

\* actor_highest_rating.get(actor, 0)
Lookup(table, actor) == IF actor \in DOMAIN table THEN table[actor] ELSE 0

RECURSIVE SumSeq(_)
SumSeq(s) == IF s = <<>> THEN 0 ELSE Head(s) + SumSeq(Tail(s))

\* mean(actor_ratings) if actor_ratings else 0
ActorRating(table, actors) ==
    IF actors = <<>> THEN Rat(0, 1)
    ELSE Rat(SumSeq([i \in 1..Len(actors) |-> Lookup(table, actors[i])]), Len(actors))

\* (rating + actor_rating) / 2
Combined(rating, actor_rating) ==
    Rat(rating * actor_rating.den + actor_rating.num, 2 * actor_rating.den)

\* title = movie[1] or movie_genres = movie[2].split(',') is out of range;
\* both stand before the try of pass 2.
Pass2Raises(rows) == \E i \in 1..Len(rows) : Len(rows[i]) <= GenreIdx

\* Pass 2: the tuples (title, rating, actor_rating, combined_rating).
RECURSIVE Pass2(_, _, _)
Pass2(rows, genre_list, table) ==
    IF rows = <<>> THEN <<>>
    ELSE LET movie == Head(rows)
             rest == Pass2(Tail(rows), genre_list, table)
         IN  IF RatingOk(movie) /\ GenreMatches(movie, genre_list)
             THEN LET actor_rating == ActorRating(table, ActorsOf(movie))
                  IN  <<[title |-> movie[TitleIdx + 1],
                         rating |-> RatingOf(movie),
                         actor_rating |-> actor_rating,
                         combined |-> Combined(RatingOf(movie), actor_rating)]>>
                      \o rest
             ELSE rest

\* Variant: the key is the combined rating alone.
KeyLessNoTie(x, y) == RatLess(y.combined, x.combined)

\* key=lambda x: (-x[3], x[0]), compared as tuples
KeyLess(x, y) ==
    \/ RatLess(y.combined, x.combined)
    \/ x.combined = y.combined /\ StrLess(x.title, y.title)

\* Stable insertion of x into a sorted list.
RECURSIVE InsertSorted(_, _)
InsertSorted(s, x) ==
    IF s = <<>> THEN <<x>>
    ELSE IF KeyLess(x, Head(s)) THEN <<x>> \o s
    ELSE <<Head(s)>> \o InsertSorted(Tail(s), x)

RECURSIVE SortMovies(_, _)
SortMovies(todo, done) ==
    IF todo = <<>> THEN done
    ELSE SortMovies(Tail(todo), InsertSorted(done, Head(todo)))

\* Variant: the slice is taken for n >= 0.
SelectTopNonNeg(sorted_movies, limit) ==
    IF limit >= 0
    THEN SubSeq(sorted_movies, 1, IF limit < Len(sorted_movies) THEN limit ELSE Len(sorted_movies))
    ELSE sorted_movies

\* sorted_movies[:n] if n > 0 else sorted_movies
SelectTop(sorted_movies, limit) ==
    IF limit > 0
    THEN SubSeq(sorted_movies, 1, IF limit < Len(sorted_movies) THEN limit ELSE Len(sorted_movies))
    ELSE sorted_movies

\* [(title, combined_rating) for title, _, _, combined_rating in selected_movies]
Pairs(selected) ==
    [i \in 1..Len(selected) |-> <<selected[i].title, selected[i].combined>>]

TopN(rows, g, limit) ==
    LET table == Pass1(rows, <<>>)
        filtered == Pass2(rows, GenreList(g), table)
    IN  [table |-> table,
         filtered |-> filtered,
         result |-> Pairs(SelectTop(SortMovies(filtered, <<>>), limit))]

MkRow(nf, id, title, genres, cast, rating) ==
    [i \in 1..nf |->
        CASE i = 1 -> id
          [] i = TitleIdx + 1 -> title
          [] i = GenreIdx + 1 -> genres
          [] i = CastIdx + 1 -> cast
          [] i = YearIdx + 1 -> <<"5">>
          [] i = RatingIdx + 1 -> rating
          [] OTHER -> <<"f">>]

RankRows ==
    { MkRow(9, <<"1">>, <<"A">>, <<"c", ",", "d">>, <<"X", ",", " ", "Y">>, <<"8", ".", "1">>),
      MkRow(9, <<"2">>, <<"B">>, <<"c">>, <<"X">>, <<"9">>),
      MkRow(9, <<"3">>, <<"a">>, <<>>, <<>>, <<" ", "8", " ">>),
      MkRow(9, <<"4">>, <<"A", "B">>, <<"c", ",", " ", "d">>, <<"Y">>, <<"x">>),
      MkRow(2, <<"5">>, <<"B">>, <<>>, <<>>, <<>>),
      MkRow(7, <<"6">>, <<"A">>, <<"d">>, <<"X">>, <<>>),
      MkRow(9, <<"7">>, <<"A", "B">>, <<"d">>, <<"X">>, <<"9">>),
      MkRow(9, <<"8">>, <<"a">>, <<" ", "d">>, <<"Y">>, <<"9", ".", "5">>) }

GenreFilters ==
    { <<>>, <<" ", "d">>, <<"x", ",", "c">>, <<" ">> }

Limits == {-1, 0, 2}

InitRank ==
    /\ pc = "start" /\ err = "none"
    /\ readable = TRUE /\ fileText = <<>> /\ year = 0 /\ movies = <<>>
    /\ data \in SeqsUpTo(RankRows, MaxRows)
    /\ genre \in GenreFilters
    /\ n \in Limits
    /\ actor_highest_rating = <<>> /\ filtered_movies = <<>> /\ ranked = <<>>
    /\ top = <<>> /\ writable = TRUE /\ oldFile = <<>> /\ outFile = <<>>

TopNCall ==
    /\ pc = "start"
    /\ LET r == TopN(data, genre, n)
       IN  /\ actor_highest_rating' = r.table
           /\ IF Pass2Raises(data)
              THEN /\ pc' = "raised" /\ err' = "IndexError"
                   /\ UNCHANGED <<filtered_movies, ranked>>
              ELSE /\ pc' = "returned" /\ err' = err
                   /\ filtered_movies' = r.filtered
                   /\ ranked' = r.result
    /\ UNCHANGED <<data, genre, n>>
    /\ UNCHANGED loadVars
    /\ UNCHANGED writeVars

NextRank == TopNCall

SpecRank == InitRank /\ [][NextRank]_vars

(***************************************************************************)
(* write_file                                                              *)
(***************************************************************************)
RECURSIVE IntText(_)
IntText(k) ==
    IF k < 10 THEN <<DigitChar(k)>>
    ELSE Append(IntText(k \div 10), DigitChar(k % 10))

\* The tenths that '.1f' may print for the magnitude of a score.  A score
\* exactly half way between two tenths is printed as the binary value of
\* the float falls, which the rational does not determine: both are kept.
RoundedTenths(score) ==
    LET a == Abs(score.num)
        lo == a \div score.den
        twice == 2 * (a % score.den)
    IN  IF twice < score.den THEN {lo}
        ELSE IF twice > score.den THEN {lo + 1}
        ELSE {lo, lo + 1}

\* f"{rating:.1f}" for the magnitude q, in tenths, of a score
FormatScore(score, q) ==
    (IF score.num < 0 THEN <<"-">> ELSE <<>>)
        \o IntText(q \div 10) \o <<".">> \o <<DigitChar(q % 10)>>

\* f"{title},{rating:.1f}\n"
FormatLine(pair, q) == pair[1] \o <<",">> \o FormatScore(pair[2], q) \o <<"\n">>

RECURSIVE Concat(_)
Concat(parts) == IF parts = <<>> THEN <<>> ELSE Head(parts) \o Concat(Tail(parts))

\* Variant: the destination is opened for appending.
WriteResultAppend(previous, written) == previous \o written

\* open(file_name, 'w') truncates; the writes follow.
WriteResult(previous, written) == written

WriteTitles == { <<"A">>, <<"a", " ", "B">> }

WriteScores == { Rat(90, 1), Rat(333, 4), Rat(161, 2), Rat(-1, 4) }

PriorContents == { <<>>, <<"o", "l", "d", "\n">>, <<"x">> }

InitWrite ==
    /\ pc = "start" /\ err = "none"
    /\ readable = TRUE /\ fileText = <<>> /\ year = 0 /\ movies = <<>>
    /\ data = <<>> /\ genre = <<>> /\ n = 0
    /\ actor_highest_rating = <<>> /\ filtered_movies = <<>> /\ ranked = <<>>
    /\ top \in SeqsUpTo(WriteTitles \X WriteScores, MaxResults)
    /\ writable \in BOOLEAN
    /\ oldFile \in PriorContents
    /\ outFile = oldFile

WriteFile ==
    /\ pc = "start"
    /\ IF ~writable
       THEN pc' = "raised" /\ err' = "OSError" /\ outFile' = outFile
       ELSE /\ pc' = "returned" /\ err' = err
            /\ \E q \in [1..Len(top) -> UNION {RoundedTenths(top[i][2]) : i \in 1..Len(top)}] :
                  /\ \A i \in 1..Len(top) : q[i] \in RoundedTenths(top[i][2])
                  /\ outFile' = WriteResult(outFile,
                         Concat([i \in 1..Len(top) |-> FormatLine(top[i], q[i])]))
    /\ UNCHANGED <<top, writable, oldFile>>
    /\ UNCHANGED loadVars
    /\ UNCHANGED rankVars

NextWrite == WriteFile

SpecWrite == InitWrite /\ [][NextWrite]_vars

(***************************************************************************)
(* Properties.  A property of a return value speaks of the calls that      *)
(* return (pc = "returned").                                               *)
(***************************************************************************)
Min(a, b) == IF a < b THEN a ELSE b

Range(f) == {f[i] : i \in DOMAIN f}

\* a <= b in plain code point order, stated on positions.
TitleLeq(a, b) ==
    \E k \in 0..Min(Len(a), Len(b)) :
        /\ \A j \in 1..k : a[j] = b[j]
        /\ \/ k = Len(a)
           \/ k < Len(a) /\ k < Len(b) /\ CharCode(a[k + 1]) < CharCode(b[k + 1])

\* Rows of data whose rating field exists and parses.
RatedIdx == {i \in 1..Len(data) :
                Len(data[i]) >= 9 /\ ParseFloat(data[i][9]).ok}

\* The genre filter g lets the row through, as the filter is specified.
PassesFilter(row, g) ==
    \/ g = <<>>
    \/ \E t \in Range(Split(g, <<",">>)) :
           Strip(t) \in Range(Split(row[3], <<",">>))

PassIdxFor(g) == {i \in RatedIdx : PassesFilter(data[i], g)}

PassIdx == PassIdxFor(genre)

Count(seq, x) == Cardinality({j \in 1..Len(seq) : seq[j] = x})

\* Reputation of an actor: the highest rating over all rated rows with that name.
Reputation(actor) ==
    LET rs == {ParseFloat(data[i][9]).val :
                  i \in {j \in RatedIdx : actor \in Range(Split(data[j][6], <<",", " ">>))}}
    IN  CHOOSE r \in rs : \A q \in rs : q <= r

\* (rating + mean of the cast's reputations) / 2 for a rated row.
ExpectedScore(i) ==
    LET cast == Split(data[i][6], <<",", " ">>)
        k == Len(cast)
        total == SumSeq([j \in 1..k |-> Reputation(cast[j])])
    IN  Rat(ParseFloat(data[i][9]).val * k + total, 2 * k)

ExpectedEntry(i) == <<data[i][2], ExpectedScore(i)>>

RankReturned == pc = "returned" /\ data # <<>>

\* C1: the list returned by top_n is ordered: for every adjacent pair the
\* first score is >= the second, and on equal scores the first title is <=
\* the second in plain lexicographic order.
C1_Sorted ==
    pc = "returned" =>
        \A i \in 1..(Len(ranked) - 1) :
            /\ ~RatLess(ranked[i][2], ranked[i + 1][2])
            /\ ranked[i][2] = ranked[i + 1][2] => TitleLeq(ranked[i][1], ranked[i + 1][1])

\* A returned list with a tie between different titles and a strict descent.
C1_Witness ==
    /\ RankReturned
    /\ \E i \in 1..(Len(ranked) - 1) :
           ranked[i][2] = ranked[i + 1][2] /\ ranked[i][1] # ranked[i + 1][1]
    /\ \E i \in 1..(Len(ranked) - 1) : RatLess(ranked[i + 1][2], ranked[i][2])

\* C2: with limit N > 0 top_n returns exactly min(N, P) entries, P the
\* number of rated rows passing the filter, and they are the first
\* min(N, P) entries of the result for limit 0; with N <= 0 it returns all P.
C2_Truncation ==
    pc = "returned" =>
        LET P == Cardinality(PassIdx)
            all == TopN(data, genre, 0).result
        IN  IF n > 0
            THEN /\ Len(ranked) = Min(n, P)
                 /\ ranked = SubSeq(all, 1, Min(n, P))
            ELSE /\ Len(ranked) = P
                 /\ ranked = all

\* A call whose limit cut the list short.
C2_Witness ==
    /\ RankReturned
    /\ n > 0 /\ Cardinality(PassIdx) > n /\ Len(ranked) = n

\* C3: with limit <= 0 the output has exactly one entry per rated row that
\* passes the genre filter, and no entry from any other row.
C3_Filter ==
    (pc = "returned" /\ n <= 0) =>
        /\ Len(ranked) = Cardinality(PassIdx)
        /\ \A t \in {data[i][2] : i \in RatedIdx} \cup {ranked[j][1] : j \in 1..Len(ranked)} :
               Cardinality({j \in 1..Len(ranked) : ranked[j][1] = t})
                   = Cardinality({i \in PassIdx : data[i][2] = t})

\* A filtered call that lets one rated row through and keeps another out.
C3_Witness ==
    /\ RankReturned
    /\ n <= 0 /\ genre # <<>>
    /\ Len(ranked) >= 1
    /\ Cardinality(RatedIdx) > Cardinality(PassIdx)

\* C4: read_file returns, in file order and with all their fields, exactly
\* the non-header lines whose field at index 6 parses as an integer >= Y;
\* every returned year is >= Y and the header is never returned.
C4_YearFilter ==
    pc = "returned" =>
        LET fields(i) == Split(Strip(fileText[i]), <<";">>)
            kept == {i \in 2..Len(fileText) :
                        /\ Len(fields(i)) >= 7
                        /\ ParseInt(fields(i)[7]).ok
                        /\ ParseInt(fields(i)[7]).val >= year}
            position(i) == Cardinality({j \in kept : j <= i})
        IN  /\ Len(movies) = Cardinality(kept)
            /\ \A i \in kept : movies[position(i)] = fields(i)
            /\ \A j \in 1..Len(movies) :
                   ParseInt(movies[j][7]).ok /\ ParseInt(movies[j][7]).val >= year

\* A read that kept a line, one of them with the minimum year itself, and dropped a line.
C4_Witness ==
    /\ pc = "returned" /\ fileText # <<>>
    /\ Len(movies) >= 1
    /\ Len(movies) < Len(fileText) - 1
    /\ \E j \in 1..Len(movies) : ParseInt(movies[j][7]).val = year

\* C5: read_file fails only when the file cannot be opened or read,
\* whatever the lines of a readable file are, a file with no line included.
C5_OnlyUnreadableFails == pc = "raised" => ~readable

\* C6: top_n does not raise on defective rows; a row without a parsable
\* rating field is skipped in both passes and the others are ranked as if
\* it were not in the input.
C6_DefectiveRowsSkipped ==
    pc # "start" =>
        LET sound == SelectSeq(data, LAMBDA row : Len(row) >= 9 /\ ParseFloat(row[9]).ok)
            clean == TopN(sound, genre, n)
        IN  /\ pc = "returned"
            /\ ranked = clean.result
            /\ actor_highest_rating = clean.table

\* C7: every reported score is (rating + actorScore) / 2 with actorScore the
\* mean of the cast's reputations, a reputation being the highest rating
\* over all rated rows of the input with that name, whatever the genre
\* filter: ExpectedScore does not mention the filter, so a row has the same
\* score under every filter that lets it through.
C7_Score ==
    pc = "returned" =>
        LET expected == [i \in RatedIdx |-> ExpectedEntry(i)]
        IN  /\ \A j \in 1..Len(ranked) :
                   Count(ranked, ranked[j]) <= Cardinality({i \in PassIdx : expected[i] = ranked[j]})
            /\ n <= 0 => \A i \in PassIdx :
                   Count(ranked, expected[i]) = Cardinality({k \in PassIdx : expected[k] = expected[i]})

\* A reported row whose cast owes its reputation to a row the filter excludes.
C7_Witness ==
    /\ RankReturned
    /\ genre # <<>> /\ n <= 0
    /\ \E i \in PassIdx : \E j \in RatedIdx \ PassIdx :
           \E a \in Range(Split(data[i][6], <<",", " ">>)) :
               /\ a \in Range(Split(data[j][6], <<",", " ">>))
               /\ ParseFloat(data[j][9]).val > ParseFloat(data[i][9]).val
               /\ Reputation(a) = ParseFloat(data[j][9]).val
               /\ ExpectedEntry(i) \in Range(ranked)

\* C8: after write_file returns the file holds exactly len(results) lines,
\* the i-th being the i-th title, a comma and the i-th score (one decimal),
\* in order, nothing of the earlier content; an empty list empties the file.
C8_FileReplaced ==
    (pc = "returned" /\ writable) =>
        LET lines == Split(outFile, <<"\n">>)
        IN  /\ Len(lines) = Len(top) + 1
            /\ lines[Len(lines)] = <<>>
            /\ \A i \in 1..Len(top) :
                   LET title == top[i][1]
                       score == top[i][2]
                       text == SubSeq(lines[i], Len(title) + 2, Len(lines[i]))
                       point == Split(text, <<".">>)
                   IN  /\ SubSeq(lines[i], 1, Len(title) + 1) = Append(title, ",")
                       /\ Len(point) = 2 /\ Len(point[2]) = 1
                       /\ ParseFloat(text).ok
                       /\ 2 * Abs(ParseFloat(text).val * score.den - score.num) <= score.den

\* A write of some results over a file that had content.
C8_Witness ==
    /\ pc = "returned" /\ writable
    /\ oldFile # <<>> /\ top # <<>>
    /\ outFile # <<>>

\* A write of no result over a file that had content.
C8_WitnessEmpty ==
    /\ pc = "returned" /\ writable
    /\ oldFile # <<>> /\ top = <<>> /\ outFile = <<>>

\* C9: a rated row whose cast field is the empty string gets actorScore 0,
\* so its reported score is rating / 2.
C9_EmptyCastHalvesRating ==
    (pc = "returned" /\ n <= 0) =>
        \A i \in PassIdx :
            data[i][6] = <<>> =>
                <<data[i][2], Rat(ParseFloat(data[i][9]).val, 2)>> \in Range(ranked)

\* C10: every name looked up in pass 2 is a key of the table of pass 1, its
\* reputation is >= the rating of the row looked at, and every reported
\* score is >= the own rating of its row.
C10_ReputationCoversRating ==
    pc = "returned" =>
        /\ \A i \in PassIdx : \A a \in Range(Split(data[i][6], <<",", " ">>)) :
               /\ a \in DOMAIN actor_highest_rating
               /\ actor_highest_rating[a] >= ParseFloat(data[i][9]).val
        /\ \A k \in 1..Len(filtered_movies) :
               filtered_movies[k].combined.num
                   >= filtered_movies[k].rating * filtered_movies[k].combined.den
        /\ \A j \in 1..Len(ranked) : \E k \in 1..Len(filtered_movies) :
               /\ ranked[j] = <<filtered_movies[k].title, filtered_movies[k].combined>>
               /\ ~RatLess(ranked[j][2], Rat(filtered_movies[k].rating, 1))

\* A reported row with two cast names, one of them rated higher elsewhere.
C10_Witness ==
    /\ RankReturned
    /\ \E i \in PassIdx :
           /\ Len(Split(data[i][6], <<",", " ">>)) >= 2
           /\ \E a \in Range(Split(data[i][6], <<",", " ">>)) :
                  actor_highest_rating[a] > ParseFloat(data[i][9]).val
           /\ ExpectedEntry(i) \in Range(ranked)

====
